---- MODULE Spec2Model ----
(***************************************************************************)
(* termtest (src/termtest.c): the raw-mode controller (tty_cbreak,         *)
(* tty_atexit), the transaction engine (comm), the reply parsers and the   *)
(* sequence of probes in main, as a state machine.                         *)
(*                                                                         *)
(* Bytes are the numbers 0..255 and a C string is the sequence of its      *)
(* bytes before the terminating NUL.  A Response is such a sequence, or    *)
(* NULL.  Time is counted in milliseconds and passes only inside poll().   *)
(***************************************************************************)
EXTENDS Integers, Sequences, FiniteSets, TLC

VARIABLES
    pc,               \* position of main (or of the harness driving comm)
    tattr,            \* the terminal's current attributes
    orig,             \* the terminal's attributes when the process started
    saved_termios,    \* static struct termios saved_termios
    cbreak_ok,        \* tty_cbreak() has returned true
    cb_line,          \* the source line of the return statement tty_cbreak took
    cb_reset,         \* what line 66's tcsetattr achieved: none, some or all of it
    restores,         \* how many times tty_atexit() has run
    cpc,              \* position inside comm()
    req,              \* comm's argument req
    wait_first,       \* comm's argument wait_first
    len,              \* comm's local len
    n,                \* comm's local n
    buf,              \* comm's local buf[0 .. buf_len-1]
    resp,             \* comm's return value, kept until the next call
    ret_line,         \* the source line of the return statement comm took
    npolls,           \* poll() calls made by the current comm()
    nreads,           \* read() calls made by the current comm()
    nwrites,          \* write() calls made by the current comm()
    tty_in,           \* bytes the terminal has delivered and nobody has read
    src,              \* what the terminal will deliver: <<[gap, data], ...>>
    ssh,              \* getenv("SSH_CONNECTION") is set
    arrivals,         \* how many times the terminal has sent something of its own
    hup,              \* the terminal line has hung up
    fault,            \* a system call of this comm() failed, or the line hung up
    decrqm_supported, \* main's local
    bright_red_save,  \* main's local
    r,                \* main's colour loop counter
    mi,               \* main's index i into mouses[]
    ws,               \* struct winsize ws
    report,           \* the last probe result printed
    calls,            \* harness: comm() calls made
    results,          \* harness: the Responses returned, in order
    sched0,           \* harness: the terminal's whole schedule
    p_resp,           \* parser harness: the Response handed to the parser
    p_ret             \* parser harness: what the parser returned

ttyVars  == <<tattr, orig, saved_termios, cbreak_ok, cb_line, cb_reset, restores>>
commVars == <<cpc, req, wait_first, len, n, buf, resp, ret_line, npolls, nreads, nwrites>>
termVars == <<tty_in, src, arrivals, hup, fault>>
mainVars == <<decrqm_supported, bright_red_save, r, mi, ws, report>>
harnVars == <<calls, results, sched0>>
parsVars == <<p_resp, p_ret>>
vars == <<pc, ttyVars, commVars, termVars, ssh, mainVars, harnVars, parsVars>>

----------------------------------------------------------------------------
(* Bounds of the model. *)

\* replies the terminal queues during one comm() call of main
MaxArrivals == 1
\* chunks in a harness schedule
MaxChunks == 2
\* comm() calls the harness makes
MaxCalls == 2

----------------------------------------------------------------------------
(* C values. *)

\* What main has printed about a probe: which line (kind), its signed numbers,
\* its unsigned numbers and its text.  Nothing yet:
NoReport == [kind |-> "", nums |-> <<>>, u |-> <<>>, text |-> <<>>, str |-> ""]

\* What an access through a null pointer may do: end the process with
\* SIGSEGV, or go unnoticed where page zero is mapped and reads as zero.
NullAccess == {"crash", "benign"}

\* A null pointer where a char * is expected; no byte is negative.
NULL == <<-1>>

CSI == <<27, 91>>
OSC == <<27, 93>>
BEL == <<7>>

\* char buf[1000] in comm
BufSize == 1000

\* size_t is 64 bits wide: a value is kept as four 16-bit limbs, most
\* significant first.  The conversion of a signed integer v (|v| < 2^31) to
\* size_t: a negative v becomes 2^64 + v.
ToSizeT(v) ==
    IF v >= 0
    THEN <<0, 0, v \div 65536, v % 65536>>
    ELSE <<65535, 65535, 65535 - ((-v - 1) \div 65536), 65535 - ((-v - 1) % 65536)>>

\* a < b on size_t values
SizeLt(a, b) ==
    \E i \in 1..4 : a[i] < b[i] /\ \A j \in 1..(i - 1) : a[j] = b[j]

\* strlen of a C string
strlen(s) == Len(s)

\* The bytes of s before its first NUL: what a C string function sees of a buffer.
CStr(s) ==
    LET nuls == {i \in 1..Len(s) : s[i] = 0} IN
    IF nuls = {} THEN s
    ELSE SubSeq(s, 1, (CHOOSE i \in nuls : \A j \in nuls : i <= j) - 1)

\* strdup(buf): a copy of the buffer up to its first NUL
strdup(s) == CStr(s)

----------------------------------------------------------------------------
(* The terminal's attributes: the fields of struct termios the program     *)
(* touches.                                                                *)

Termios(e, c, m, t) == [echo |-> e, icanon |-> c, vmin |-> m, vtime |-> t]

\* static storage is zero-initialised
ZeroTermios == Termios(FALSE, FALSE, 0, 0)

\* The attributes a terminal may have when the program starts: cooked, or
\* non-canonical with a read timeout.
OrigAttrs == {Termios(TRUE, TRUE, 1, 0), Termios(TRUE, FALSE, 0, 5)}

\* buf.c_lflag &= ~(ECHO | ICANON); buf.c_cc[VMIN] = 1; buf.c_cc[VTIME] = 0;
CbreakOf(t) == Termios(FALSE, FALSE, 1, 0)

\* What tcsetattr(fd, TCSAFLUSH, want) may do to attributes old: fail and change
\* nothing (-1), or succeed having carried out all or only some of the changes
\* (eff).
TcsetattrOutcomes(old, want) ==
    {[ret |-> -1, attr |-> old, eff |-> "none"]} \cup
    {[ret |-> 0, attr |-> a, eff |-> IF a = want THEN "all" ELSE "some"] :
        a \in {x \in [echo : {old.echo, want.echo}, icanon : {old.icanon, want.icanon},
                      vmin : {old.vmin, want.vmin}, vtime : {old.vtime, want.vtime}] :
                 x = want \/ x # old}}

\* What tcgetattr(fd, &t) may do: fail (-1) or report the attributes.
TcgetattrOutcomes(cur) == {[ret |-> -1, attr |-> cur], [ret |-> 0, attr |-> cur]}

\* The readback check of tty_cbreak, on the attributes read back.
CbreakVerified(b) == ~(b.echo \/ b.icanon) /\ b.vmin = 1 /\ b.vtime = 0

\* Lines 66-67, once the readback has failed: the saved attributes are set
\* again (what that tcsetattr answers is not looked at) and false is returned.
cbreak_unverified(cur, sv) ==
    {[ret |-> FALSE, attr |-> s2.attr, saved |-> sv, flushed |-> TRUE, line |-> 67,
      reset |-> s2.eff] : s2 \in TcsetattrOutcomes(cur, sv)}

\* tty_cbreak(): the outcomes over what the system calls may answer: the value
\* returned (ret) at which line, the terminal's attributes after it (attr),
\* saved_termios (saved), whether a TCSAFLUSH has discarded the pending input
\* (flushed) and what line 66's tcsetattr achieved (reset).
tty_cbreak_outcomes(cur, saved) ==
    LET g1s == TcgetattrOutcomes(cur) IN
    {[ret |-> FALSE, attr |-> cur, saved |-> saved, flushed |-> FALSE, line |-> 55,
      reset |-> "none"] : g \in {x \in g1s : x.ret < 0}}
    \cup UNION {
      LET sv == g.attr
          s1s == TcsetattrOutcomes(cur, CbreakOf(sv)) IN
      {[ret |-> FALSE, attr |-> s.attr, saved |-> sv, flushed |-> FALSE, line |-> 62,
        reset |-> "none"] : s \in {x \in s1s : x.ret < 0}}
      \cup UNION {
        UNION {
          IF g2.ret < 0 \/ ~CbreakVerified(g2.attr)
          THEN cbreak_unverified(s.attr, sv)
          ELSE {[ret |-> TRUE, attr |-> s.attr, saved |-> sv, flushed |-> TRUE,
                 line |-> 69, reset |-> "none"]}
          : g2 \in TcgetattrOutcomes(s.attr)}
        : s \in {x \in s1s : x.ret = 0}}
      : g \in {x \in g1s : x.ret = 0}}

----------------------------------------------------------------------------
(* The terminal as a source of input.                                      *)

\* int lag = getenv("SSH_CONNECTION") ? 250 : 50;
lag == IF ssh THEN 250 ELSE 50

\* poll(&pfd, 1, t) on the terminal with unread bytes q, schedule s and
\* hangup state h; t < 0 waits without limit.  It may fail (-1); it returns
\* at once when bytes are unread or the line has hung up; the line may hang
\* up now; the next chunk may arrive before the timeout; or it times out (0).
\* An arrival at the very instant of the timeout may fall either way.
PollOutcomes(t, q, s, h) ==
    {[n |-> -1, q |-> q, s |-> s, h |-> h, f |-> TRUE]}
    \cup (IF q # <<>> \/ h
          THEN {[n |-> 1, q |-> q, s |-> s, h |-> h, f |-> FALSE]}
          ELSE {[n |-> 1, q |-> q, s |-> s, h |-> TRUE, f |-> TRUE]})
    \cup (IF q = <<>> /\ ~h /\ s # <<>> /\ (t < 0 \/ Head(s).gap <= t)
          THEN {[n |-> 1, q |-> Head(s).data, s |-> Tail(s), h |-> h, f |-> FALSE]}
          ELSE {})
    \cup (IF q = <<>> /\ ~h /\ t >= 0 /\ s = <<>>
          THEN {[n |-> 0, q |-> q, s |-> s, h |-> h, f |-> FALSE]} ELSE {})
    \cup (IF q = <<>> /\ ~h /\ t >= 0 /\ s # <<>> /\ Head(s).gap >= t
          THEN {[n |-> 0, q |-> q, h |-> h, f |-> FALSE,
                 s |-> <<[gap |-> Head(s).gap - t, data |-> Head(s).data]>> \o Tail(s)]}
          ELSE {})

\* poll(NULL, 0, t): t milliseconds pass; what arrives meanwhile is queued.
RECURSIVE Elapse(_, _, _)
Elapse(t, q, s) ==
    IF s = <<>> THEN [q |-> q, s |-> s]
    ELSE IF Head(s).gap <= t THEN Elapse(t - Head(s).gap, q \o Head(s).data, Tail(s))
    ELSE [q |-> q, s |-> <<[gap |-> Head(s).gap - t, data |-> Head(s).data]>> \o Tail(s)]

\* write(STDOUT_FILENO, req, strlen(req)): -1, or the number of bytes accepted.
WriteOutcomes(rq) ==
    {-1, strlen(rq)} \cup (IF strlen(rq) > 0 THEN {0, strlen(rq) - 1} ELSE {})

\* read(STDIN_FILENO, p, count) with unread bytes q: -1, or the bytes taken
\* (none at a hangup or when count is 0).
Min(a, b) == IF a < b THEN a ELSE b

ReadOutcomes(count, q) ==
    {[len |-> -1, data |-> <<>>, q |-> q, f |-> TRUE],
     [len |-> Min(Len(q), count), data |-> SubSeq(q, 1, Min(Len(q), count)), f |-> FALSE,
      q |-> SubSeq(q, Min(Len(q), count) + 1, Len(q))]}

----------------------------------------------------------------------------
(* comm(): one action per system call.                                     *)

\* return v; at source line l
comm_return(v, l) ==
    /\ cpc' = "ret"
    /\ resp' = v
    /\ ret_line' = l

\* The call: the arguments are bound, the locals are fresh.
comm_call(rq, wf) ==
    /\ cpc = "idle"
    /\ cpc' = "L75"
    /\ req' = rq
    /\ wait_first' = wf
    /\ len' = 0 /\ n' = 0 /\ buf' = <<>>
    /\ resp' = <<>> /\ ret_line' = 0
    /\ npolls' = 0 /\ nreads' = 0 /\ nwrites' = 0
    /\ fault' = FALSE
    /\ UNCHANGED <<tty_in, src, arrivals, hup>>

\* The caller has taken the return value: comm's frame is gone.
comm_leave ==
    /\ cpc' = "idle"
    /\ req' = <<>> /\ wait_first' = FALSE
    /\ len' = 0 /\ n' = 0 /\ buf' = <<>>
    /\ resp' = <<>> /\ ret_line' = 0
    /\ npolls' = 0 /\ nreads' = 0 /\ nwrites' = 0

\* if (len < strlen(req)): len is an ssize_t and strlen a size_t, so the
\* comparison is made on size_t.
short_write(l, rq) == SizeLt(ToSizeT(l), ToSizeT(strlen(rq)))

\* Lines 75-76.
comm_write ==
    /\ cpc = "L75"
    /\ \E w \in WriteOutcomes(req) :
        /\ len' = w
        /\ IF short_write(w, req)
           THEN comm_return(NULL, 76)
           ELSE /\ cpc' = IF wait_first THEN "L79" ELSE "L83"
                /\ UNCHANGED <<resp, ret_line>>
        /\ fault' = (fault \/ w # strlen(req))
    /\ nwrites' = nwrites + 1
    /\ UNCHANGED <<pc, ttyVars, req, wait_first, n, buf, npolls, nreads, tty_in, src,
                   arrivals, hup, ssh, mainVars, harnVars, parsVars>>

\* Line 79: if (wait_first) poll(&pfd, 1, -1); the result is dropped.
comm_wait ==
    /\ cpc = "L79"
    /\ \E o \in PollOutcomes(-1, tty_in, src, hup) :
        /\ tty_in' = o.q
        /\ src' = o.s
        /\ hup' = o.h
        /\ fault' = (fault \/ o.f)
    /\ cpc' = "L83"
    /\ npolls' = npolls + 1
    /\ UNCHANGED <<pc, ttyVars, req, wait_first, len, n, buf, resp, ret_line, nreads,
                   nwrites, arrivals, ssh, mainVars, harnVars, parsVars>>

\* after_poll with an error treated like the timeout: what was captured is returned.
after_poll_besteffort(v) == IF v <= 0 THEN 89 ELSE 85

\* What the loop does with poll's answer n (lines 83, 84 and 89): the line it
\* goes to, 85 being the read.
after_poll(v) == IF v = 0 THEN 89 ELSE IF v < 0 THEN 84 ELSE 85

\* Lines 83, 84 and 89: the loop's poll, and the two returns it decides.
comm_poll ==
    /\ cpc = "L83"
    /\ \E o \in PollOutcomes(lag, tty_in, src, hup) :
        /\ n' = o.n
        /\ tty_in' = o.q
        /\ src' = o.s
        /\ hup' = o.h
        /\ fault' = (fault \/ o.f)
        /\ CASE after_poll(o.n) = 89 -> comm_return(strdup(buf), 89)
             [] after_poll(o.n) = 84 -> comm_return(NULL, 84)
             [] OTHER -> cpc' = "L85" /\ UNCHANGED <<resp, ret_line>>
    /\ npolls' = npolls + 1
    /\ UNCHANGED <<pc, ttyVars, req, wait_first, len, buf, nreads, nwrites, arrivals,
                   ssh, mainVars, harnVars, parsVars>>

\* Line 85 without the byte kept for the terminator: sizeof buf - buf_len.
read_count_whole(b) == BufSize - Len(b)

\* The count line 85 asks read for: sizeof buf - buf_len - 1.
read_count(b) == BufSize - Len(b) - 1

\* Line 86 with a read of nothing taken for a success.
read_failed_below_zero(l) == l < 0

\* Line 86: if (len <= 0) return NULL;
read_failed(l) == l <= 0

\* Lines 85-87.
comm_read ==
    /\ cpc = "L85"
    /\ \E o \in ReadOutcomes(read_count(buf), tty_in) :
        /\ len' = o.len
        /\ tty_in' = o.q
        /\ fault' = (fault \/ o.f)
        /\ IF read_failed(o.len)
           THEN comm_return(NULL, 86) /\ UNCHANGED buf
           ELSE /\ buf' = buf \o o.data
                /\ cpc' = "L83"
                /\ UNCHANGED <<resp, ret_line>>
    /\ nreads' = nreads + 1
    /\ UNCHANGED <<pc, ttyVars, req, wait_first, n, npolls, nwrites, src, arrivals, hup, ssh,
                   mainVars, harnVars, parsVars>>

comm_step == comm_write \/ comm_wait \/ comm_poll \/ comm_read

----------------------------------------------------------------------------
(* A harness that feeds consecutive comm() calls from one schedule.        *)

\* 1000 bytes in one chunk: more than the buffer takes.
Flood == [i \in 1..BufSize |-> 120]

\* The chunks a schedule is made of: a key, a NUL, a focus report, a flood.
Chunks == {<<120>>, <<0>>, CSI \o <<73>>, Flood}

Gaps(sshv) == LET l == IF sshv THEN 250 ELSE 50 IN {l - 1, l, l + 1}

RECURSIVE SeqsUpTo(_, _)
SeqsUpTo(S, k) ==
    IF k = 0 THEN {<<>>}
    ELSE LET shorter == SeqsUpTo(S, k - 1) IN
         shorter \cup {Append(q, x) : q \in shorter, x \in S}

Schedules(sshv) ==
    SeqsUpTo([gap : Gaps(sshv), data : Chunks], MaxChunks)

HarnessReqs == {<<>>, CSI \o <<53, 32, 113>>}

InitComm ==
    /\ pc = "harness"
    /\ orig = Termios(TRUE, TRUE, 1, 0)
    /\ saved_termios = orig
    /\ tattr = CbreakOf(orig)
    /\ cbreak_ok = TRUE
    /\ cb_line = 69 /\ cb_reset = "none"
    /\ restores = 0
    /\ cpc = "idle"
    /\ req = <<>> /\ wait_first = FALSE
    /\ len = 0 /\ n = 0 /\ buf = <<>>
    /\ resp = <<>> /\ ret_line = 0
    /\ npolls = 0 /\ nreads = 0 /\ nwrites = 0
    /\ tty_in = <<>>
    /\ ssh \in BOOLEAN
    /\ src \in Schedules(ssh)
    /\ sched0 = src
    /\ arrivals = 0 /\ hup = FALSE /\ fault = FALSE
    /\ decrqm_supported = FALSE /\ bright_red_save = <<>> /\ r = 0 /\ mi = 0
    /\ ws = [col |-> 0, row |-> 0]
    /\ report = NoReport
    /\ calls = 0 /\ results = <<>>
    /\ p_resp = <<>> /\ p_ret = 0

harness_call ==
    /\ pc = "harness"
    /\ calls < MaxCalls
    /\ \E rq \in HarnessReqs, wf \in BOOLEAN : comm_call(rq, wf)
    /\ calls' = calls + 1
    /\ UNCHANGED <<pc, ttyVars, ssh, mainVars, results, sched0, parsVars>>

harness_return ==
    /\ pc = "harness"
    /\ cpc = "ret"
    /\ results' = Append(results, [resp |-> resp, fault |-> fault])
    /\ comm_leave
    /\ UNCHANGED <<pc, ttyVars, termVars, ssh, mainVars, calls, sched0, parsVars>>

NextComm == harness_call \/ harness_return \/ comm_step

SpecComm == InitComm /\ [][NextComm]_vars

----------------------------------------------------------------------------
(* The same harness before a terminal that may go on sending for ever.     *)

\* No schedule: what the terminal sends is decided as the call goes.
InitStream == InitComm /\ src = <<>> /\ ~ssh

\* Before the next poll looks, the terminal has sent one more byte.
term_stream ==
    /\ cpc \in {"L79", "L83"}
    /\ tty_in = <<>> /\ ~hup
    /\ tty_in' = <<120>>
    /\ UNCHANGED <<pc, ttyVars, commVars, src, arrivals, hup, fault, ssh, mainVars,
                   harnVars, parsVars>>

\* The caller drops the Response.
stream_return ==
    /\ pc = "harness"
    /\ cpc = "ret"
    /\ comm_leave
    /\ UNCHANGED <<pc, ttyVars, termVars, ssh, mainVars, harnVars, parsVars>>

NextStream == harness_call \/ stream_return \/ comm_step \/ term_stream

\* The process is scheduled: a system call that can return does return.
SpecStream == InitStream /\ [][NextStream]_vars /\ WF_vars(comm_step)

----------------------------------------------------------------------------
(* The DECRPM parser.                                                      *)

\* s[i] of a C string, i counted from 0; the byte after the last is the NUL.
At(s, i) == IF i < Len(s) THEN s[i + 1] ELSE 0

isdigit(c) == c \in 48..57

\* isspace in the C locale: space, \t, \n, \v, \f, \r
isspace(c) == c = 32 \/ c \in 9..13

\* The first index from i on whose byte satisfies no isspace.
RECURSIVE SkipSpace(_, _)
SkipSpace(s, i) == IF isspace(At(s, i)) THEN SkipSpace(s, i + 1) ELSE i

\* The first index from i on whose byte is no digit.
RECURSIVE SkipDigits(_, _)
SkipDigits(s, i) == IF isdigit(At(s, i)) THEN SkipDigits(s, i + 1) ELSE i

\* The digits s[i .. j-1] as numbers, leading zeros dropped.
RECURSIVE Magnitude(_, _, _)
Magnitude(s, i, j) ==
    IF i >= j THEN <<>>
    ELSE IF At(s, i) = 48 THEN Magnitude(s, i + 1, j)
    ELSE [k \in 1..(j - i) |-> At(s, i + k - 1) - 48]

\* a < b for magnitudes (digit sequences without leading zeros)
RECURSIVE MagLt(_, _)
MagLt(a, b) ==
    IF Len(a) # Len(b) THEN Len(a) < Len(b)
    ELSE IF a = <<>> THEN FALSE
    ELSE IF Head(a) # Head(b) THEN Head(a) < Head(b)
    ELSE MagLt(Tail(a), Tail(b))

\* LONG_MAX = 9223372036854775807 and -LONG_MIN, long being 64 bits wide
LongMaxMag == <<9, 2, 2, 3, 3, 7, 2, 0, 3, 6, 8, 5, 4, 7, 7, 5, 8, 0, 7>>
LongMinMag == <<9, 2, 2, 3, 3, 7, 2, 0, 3, 6, 8, 5, 4, 7, 7, 5, 8, 0, 8>>

\* strtol_overflows with the bound itself counted as out of range.
strtol_overflows_at_bound(neg, mag) ==
    IF neg THEN ~MagLt(mag, LongMinMag) ELSE ~MagLt(mag, LongMaxMag)

\* Whether strtol's result for sign and magnitude is out of long's range.
strtol_overflows(neg, mag) ==
    IF neg THEN MagLt(LongMinMag, mag) ELSE MagLt(LongMaxMag, mag)

\* errno = 0; strtol(s + i, &end, 10): white space, an optional sign, digits.
\* The value is kept as sign and magnitude.  Without any digit nothing is
\* converted, end is s + i, and the C library may or may not set errno
\* (einval).  Out of range sets errno and yields LONG_MAX or LONG_MIN.
strtol(s, i, einval) ==
    LET a == SkipSpace(s, i)
        signed == At(s, a) = 43 \/ At(s, a) = 45
        d == IF signed THEN a + 1 ELSE a
        e == SkipDigits(s, d)
        neg == At(s, a) = 45
        mag == Magnitude(s, d, e)
    IN  IF e = d
        THEN [neg |-> FALSE, mag |-> <<>>, end |-> i, errno |-> einval]
        ELSE IF strtol_overflows(neg, mag)
        THEN [neg |-> neg, mag |-> IF neg THEN LongMinMag ELSE LongMaxMag, end |-> e,
              errno |-> TRUE]
        ELSE [neg |-> neg, mag |-> mag, end |-> e, errno |-> FALSE]

\* parse_decrpm(resp) for a Response that is not NULL.
parse_decrpm(rs, einval) ==
    IF At(rs, 0) # 27 \/ At(rs, 1) # 91 \/ At(rs, 2) # 63 THEN -1
    ELSE LET m == strtol(rs, 3, einval)
             end == m.end
         IN  IF m.errno \/ (m.neg /\ m.mag # <<>>) \/ At(rs, end) # 59 THEN -1
             ELSE IF ~isdigit(At(rs, end + 1)) \/ At(rs, end + 2) # 36
                     \/ At(rs, end + 3) # 121 \/ At(rs, end + 4) # 0 THEN -1
             ELSE At(rs, end + 1) - 48

\* enum { DEC_UNKNOWN, DEC_SET, DEC_RESET, DEC_PERMSET, DEC_PERMRESET } and
\* decrpmstr(status)
decrpmstr(status) ==
    CASE status = 0 -> "unknown"
      [] status = 1 -> "set"
      [] status = 2 -> "reset"
      [] status = 3 -> "permanently set"
      [] status = 4 -> "permanently reset"
      [] OTHER -> "?"

----------------------------------------------------------------------------
(* The mouse decoder of test_mouse.                                        *)

\* unsigned int is 32 bits wide: a value is kept as <<high, low>> 16-bit halves.
U32(v) == <<v \div 65536, v % 65536>>

\* (u * 10 + d) mod 2^32
U32MulAdd(u, d) ==
    <<(u[1] * 10 + (u[2] * 10 + d) \div 65536) % 65536, (u[2] * 10 + d) % 65536>>

\* (a + b) mod 2^32
U32Add(a, b) == <<(a[1] + b[1] + (a[2] + b[2]) \div 65536) % 65536, (a[2] + b[2]) % 65536>>

\* (-u) mod 2^32
U32Neg(u) ==
    <<(65535 - u[1] + (IF u[2] = 0 THEN 1 ELSE 0)) % 65536, (65536 - u[2]) % 65536>>

\* (a - b) mod 2^32
U32Sub(a, b) == U32Add(a, U32Neg(b))

\* a > b on unsigned int
U32Gt(a, b) == a[1] > b[1] \/ (a[1] = b[1] /\ a[2] > b[2])

\* The digits s[i .. j-1] as an unsigned int, wrapping as the conversion does.
RECURSIVE DigitsU32(_, _, _)
DigitsU32(s, i, j) ==
    IF i >= j THEN U32(0) ELSE U32MulAdd(DigitsU32(s, i, j - 1), At(s, j - 1) - 48)

\* sscanf's %u at s[i]: white space, an optional sign, at least one digit.
scan_u(s, i) ==
    LET a == SkipSpace(s, i)
        signed == At(s, a) = 43 \/ At(s, a) = 45
        d == IF signed THEN a + 1 ELSE a
        e == SkipDigits(s, d)
        v == DigitsU32(s, d, e)
    IN  [ok |-> e > d, val |-> IF At(s, a) = 45 THEN U32Neg(v) ELSE v, end |-> e]

\* sscanf's "%u;%u;%u%c" at s[i]: the number of conversions made, and their values.
scan_uuuc(s, i) ==
    LET b == scan_u(s, i)
        x == scan_u(s, b.end + 1)
        y == scan_u(s, x.end + 1)
        none == U32(0)
    IN  IF ~b.ok THEN [n |-> 0, b |-> none, x |-> none, y |-> none, m |-> 0]
        ELSE IF At(s, b.end) # 59 \/ ~x.ok
        THEN [n |-> 1, b |-> b.val, x |-> none, y |-> none, m |-> 0]
        ELSE IF At(s, x.end) # 59 \/ ~y.ok
        THEN [n |-> 2, b |-> b.val, x |-> x.val, y |-> none, m |-> 0]
        ELSE IF At(s, y.end) = 0
        THEN [n |-> 3, b |-> b.val, x |-> x.val, y |-> y.val, m |-> 0]
        ELSE [n |-> 4, b |-> b.val, x |-> x.val, y |-> y.val, m |-> At(s, y.end)]

\* sscanf(resp, CSI "M%c%c%c", &bc, &xc, &yc): the number of conversions made
scan_legacy(s) ==
    IF At(s, 0) # 27 \/ At(s, 1) # 91 \/ At(s, 2) # 77 THEN 0
    ELSE IF Len(s) >= 6 THEN 3 ELSE Len(s) - 3

\* printf("%c", *p < 32 || *p > 127 ? '.' : *p) for a byte, whichever sign char has
dotted(c) == IF c < 32 \/ c > 127 THEN 46 ELSE c

\* Line 137 with a capture of six bytes counted as long.
utf8_variant_from_six(s) == strlen(s) >= 6

\* Line 137: if (strlen(resp) > 6)
utf8_variant(s) == strlen(s) > 6

\* Lines 132-155 of test_mouse for a Response that is not NULL and the window
\* size w: what is printed.
test_mouse_report(s, w) ==
    LET sgr == IF At(s, 0) = 27 /\ At(s, 1) = 91 /\ At(s, 2) = 60
               THEN scan_uuuc(s, 3) ELSE scan_uuuc(<<>>, 0)
        urx == IF At(s, 0) = 27 /\ At(s, 1) = 91
               THEN scan_uuuc(s, 2) ELSE scan_uuuc(<<>>, 0)
    IN  IF scan_legacy(s) = 3 /\ At(s, 3) >= 32 /\ At(s, 4) >= 32 /\ At(s, 5) >= 32
        THEN IF utf8_variant(s)
             THEN [kind |-> "1005?", nums |-> <<>>, u |-> <<>>,
                   text |-> [k \in 1..Len(s) |-> dotted(s[k])]]
             ELSE [kind |-> "1000/1005",
                   nums |-> <<At(s, 3) - 32, At(s, 4) - 32, At(s, 5) - 32>>,
                   u |-> <<>>, text |-> <<>>]
        ELSE IF sgr.n = 4 /\ (sgr.m = 109 \/ sgr.m = 77)
        THEN [kind |-> IF U32Gt(sgr.x, U32(w.col)) \/ U32Gt(sgr.y, U32(w.row))
                       THEN "1016" ELSE "1006/1016",
              nums |-> <<>>, u |-> <<sgr.b, sgr.x, sgr.y>>, text |-> <<sgr.m>>]
        ELSE IF urx.n = 4 /\ urx.m = 77
        THEN [kind |-> "1015", nums |-> <<>>,
              u |-> <<U32Sub(urx.b, U32(32)), urx.x, urx.y>>, text |-> <<>>]
        ELSE [kind |-> "Failed to parse.", nums |-> <<>>, u |-> <<>>, text |-> <<>>]

----------------------------------------------------------------------------
(* A harness that hands the DECRPM parser one Response.                    *)

\* the longest mode field of digits the harness enumerates
MaxModeLen == 3

\* The digits the harness writes mode fields with: '0', '1', '9'.
ModeDigits == {48, 49, 57}

RECURSIVE SeqsOfLen(_, _)
SeqsOfLen(S, k) ==
    IF k = 0 THEN {<<>>} ELSE {Append(q, x) : q \in SeqsOfLen(S, k - 1), x \in S}

\* The decimal digits of a sign-and-magnitude value, as bytes.
MagBytes(mag) == IF mag = <<>> THEN <<48>> ELSE [k \in 1..Len(mag) |-> mag[k] + 48]

\* Mode fields that are decimal numbers within long's range.
ValidModes ==
    (UNION {SeqsOfLen(ModeDigits, k) : k \in 1..MaxModeLen})
    \cup {MagBytes(LongMaxMag), <<50, 48, 48, 52>>}

\* Other mode fields: none, signed, spaced, out of range.
OddModes ==
    {<<>>, <<45, 49>>, <<45, 48>>, <<43, 49>>, <<32, 49>>, MagBytes(LongMinMag),
     <<49, 120>>}

\* ESC [ ? <mode> ; <status byte> $ y <tail>
DecrpmReply(mode, st, tail) == CSI \o <<63>> \o mode \o <<59, st, 36, 121>> \o tail

ParseInputs ==
    {DecrpmReply(m, st, t) : m \in ValidModes \cup OddModes, st \in 48..57,
                             t \in {<<>>, <<120>>}}
    \cup {<<>>, <<27>>, CSI, CSI \o <<63>>, CSI \o <<63, 49, 59>>,
          CSI \o <<63, 49, 59, 50, 36>>, CSI \o <<63, 49, 59, 120, 36, 121>>,
          CSI \o <<73>>, <<113>>}

InitParse ==
    /\ pc = "parse"
    /\ orig = Termios(TRUE, TRUE, 1, 0)
    /\ saved_termios = orig
    /\ tattr = CbreakOf(orig)
    /\ cbreak_ok = TRUE
    /\ cb_line = 69 /\ cb_reset = "none"
    /\ restores = 0
    /\ cpc = "idle"
    /\ req = <<>> /\ wait_first = FALSE
    /\ len = 0 /\ n = 0 /\ buf = <<>>
    /\ resp = <<>> /\ ret_line = 0
    /\ npolls = 0 /\ nreads = 0 /\ nwrites = 0
    /\ tty_in = <<>> /\ src = <<>>
    /\ ssh = FALSE
    /\ sched0 = <<>>
    /\ arrivals = 0 /\ hup = FALSE /\ fault = FALSE
    /\ decrqm_supported = FALSE /\ bright_red_save = <<>> /\ r = 0 /\ mi = 0
    /\ ws = [col |-> 0, row |-> 0]
    /\ report = NoReport
    /\ calls = 0 /\ results = <<>>
    /\ p_resp \in ParseInputs
    /\ p_ret = 0

\* int status = parse_decrpm(resp), under either C library
apply_parse_decrpm ==
    /\ pc = "parse"
    /\ \E einval \in BOOLEAN : p_ret' = parse_decrpm(p_resp, einval)
    /\ pc' = "parsed"
    /\ UNCHANGED <<ttyVars, commVars, termVars, ssh, mainVars, harnVars, p_resp>>

NextParse == apply_parse_decrpm

SpecParse == InitParse /\ [][NextParse]_vars

----------------------------------------------------------------------------
(* The requests main sends, byte for byte.                                 *)

\* line 186: -- Press any key to start\n
Req186 ==
    <<45, 45, 32, 80, 114, 101, 115, 115, 32, 97, 110, 121, 32, 107, 101, 121, 32, 116,
      111, 32, 115, 116, 97, 114, 116, 10>>

\* line 199: \x1b[?1000$p
Req199 ==
    <<27, 91, 63, 49, 48, 48, 48, 36, 112>>

\* line 236: \x1b]4;9;?\a
Req236 ==
    <<27, 93, 52, 59, 57, 59, 63, 7>>

\* line 254: \x1b]104;9\a
Req254 ==
    <<27, 93, 49, 48, 52, 59, 57, 7>>

\* line 320: \x1b[5 qBlinking (press a key): 
Req320 ==
    <<27, 91, 53, 32, 113, 66, 108, 105, 110, 107, 105, 110, 103, 32, 40, 112, 114,
      101, 115, 115, 32, 97, 32, 107, 101, 121, 41, 58, 32>>

\* line 322: \x1b[6 qSteady (press a key): 
Req322 ==
    <<27, 91, 54, 32, 113, 83, 116, 101, 97, 100, 121, 32, 40, 112, 114, 101, 115, 115,
      32, 97, 32, 107, 101, 121, 41, 58, 32>>

\* line 327: \x1b[2 q
Req327 ==
    <<27, 91, 50, 32, 113>>

\* line 353: \x1b[4c\x1bP0;0;0;q??~~??~~??iTiTiT\x1b\\
Req353 ==
    <<27, 91, 52, 99, 27, 80, 48, 59, 48, 59, 48, 59, 113, 63, 63, 126, 126, 63, 63,
      126, 126, 63, 63, 105, 84, 105, 84, 105, 84, 27, 92>>

\* line 360: Your terminal needs to be at least 223 columns wide.\nPress a key once you've made it wide enough.\n
Req360 ==
    <<89, 111, 117, 114, 32, 116, 101, 114, 109, 105, 110, 97, 108, 32, 110, 101, 101,
      100, 115, 32, 116, 111, 32, 98, 101, 32, 97, 116, 32, 108, 101, 97, 115, 116, 32,
      50, 50, 51, 32, 99, 111, 108, 117, 109, 110, 115, 32, 119, 105, 100, 101, 46, 10,
      80, 114, 101, 115, 115, 32, 97, 32, 107, 101, 121, 32, 111, 110, 99, 101, 32,
      121, 111, 117, 39, 118, 101, 32, 109, 97, 100, 101, 32, 105, 116, 32, 119, 105,
      100, 101, 32, 101, 110, 111, 117, 103, 104, 46, 10>>

\* line 365: \x1b[?1000h\x1b[?1004h
Req365 ==
    <<27, 91, 63, 49, 48, 48, 48, 104, 27, 91, 63, 49, 48, 48, 52, 104>>

\* line 373: \x1b[?1000l\x1b[?1004l
Req373 ==
    <<27, 91, 63, 49, 48, 48, 48, 108, 27, 91, 63, 49, 48, 48, 52, 108>>

\* line 125: \x1b[?1002l\x1b[?1003l\x1b[?1005l\x1b[?1006l\x1b[?1015l\x1b[?1016l\x1b[?1000h
Req125 ==
    <<27, 91, 63, 49, 48, 48, 50, 108, 27, 91, 63, 49, 48, 48, 51, 108, 27, 91, 63, 49,
      48, 48, 53, 108, 27, 91, 63, 49, 48, 48, 54, 108, 27, 91, 63, 49, 48, 49, 53,
      108, 27, 91, 63, 49, 48, 49, 54, 108, 27, 91, 63, 49, 48, 48, 48, 104>>

\* line 157: Waiting for button up events, press a key if hanging.\n
Req157 ==
    <<87, 97, 105, 116, 105, 110, 103, 32, 102, 111, 114, 32, 98, 117, 116, 116, 111,
      110, 32, 117, 112, 32, 101, 118, 101, 110, 116, 115, 44, 32, 112, 114, 101, 115,
      115, 32, 97, 32, 107, 101, 121, 32, 105, 102, 32, 104, 97, 110, 103, 105, 110,
      103, 46, 10>>

\* line 382: \x1b[?1000l
Req382 ==
    <<27, 91, 63, 49, 48, 48, 48, 108>>

\* line 389: \x1b]52;pc;?\a
Req389 ==
    <<27, 93, 53, 50, 59, 112, 99, 59, 63, 7>>

\* line 400: \x1b]52;pc;VGVzdA==\a
Req400 ==
    <<27, 93, 53, 50, 59, 112, 99, 59, 86, 71, 86, 122, 100, 65, 61, 61, 7>>

\* line 401: Check if the selection now contains 'Test' and press a key.\n
Req401 ==
    <<67, 104, 101, 99, 107, 32, 105, 102, 32, 116, 104, 101, 32, 115, 101, 108, 101,
      99, 116, 105, 111, 110, 32, 110, 111, 119, 32, 99, 111, 110, 116, 97, 105, 110,
      115, 32, 39, 84, 101, 115, 116, 39, 32, 97, 110, 100, 32, 112, 114, 101, 115,
      115, 32, 97, 32, 107, 101, 121, 46, 10>>

\* line 409: \x1b[?2004hPaste something: 
Req409 ==
    <<27, 91, 63, 50, 48, 48, 52, 104, 80, 97, 115, 116, 101, 32, 115, 111, 109, 101,
      116, 104, 105, 110, 103, 58, 32>>

\* line 411: \x1b[?2004l
Req411 ==
    <<27, 91, 63, 50, 48, 48, 52, 108>>

\* line 414: -- Finished\n
Req414 ==
    <<45, 45, 32, 70, 105, 110, 105, 115, 104, 101, 100, 10>>

----------------------------------------------------------------------------
(* What the terminal may send while main runs.                             *)

\* a key: q
KeyReply ==
    <<113>>

\* DECRPM, mode 1000 set: \x1b[?1000;1$y
DecrpmSetReply ==
    <<27, 91, 63, 49, 48, 48, 48, 59, 49, 36, 121>>

\* focus in: \x1b[I
FocusInReply ==
    <<27, 91, 73>>

\* SGR mouse: \x1b[<0;5;10M
SgrMouseReply ==
    <<27, 91, 60, 48, 59, 53, 59, 49, 48, 77>>

\* OSC 4 reply: \x1b]4;9;rgb:ffff/0000/0000\a
ColourReply ==
    <<27, 93, 52, 59, 57, 59, 114, 103, 98, 58, 102, 102, 102, 102, 47, 48, 48, 48, 48,
      47, 48, 48, 48, 48, 7>>

\* OSC 4 reply cut short: \x1b]4;9;rgb:ff
ColourCutReply ==
    <<27, 93, 52, 59, 57, 59, 114, 103, 98, 58, 102, 102>>

\* OSC 52 reply: \x1b]52;pc;VGVzdA==\a
SelectionReply ==
    <<27, 93, 53, 50, 59, 112, 99, 59, 86, 71, 86, 122, 100, 65, 61, 61, 7>>

\* a bracketed paste: \x1b[200~x\x1b[201~
PasteReply ==
    <<27, 91, 50, 48, 48, 126, 120, 27, 91, 50, 48, 49, 126>>

----------------------------------------------------------------------------
(* main: one action per statement that calls comm() or the system.          *)

\* snprintf's %d for a number that is not negative
RECURSIVE Dec(_)
Dec(v) == IF v < 10 THEN <<48 + v>> ELSE Dec(v \div 10) \o <<48 + (v % 10)>>

\* snprintf's %02x for a number below 256
HexDigit(d) == IF d < 10 THEN 48 + d ELSE 87 + d
Hex2(v) == <<HexDigit(v \div 16), HexDigit(v % 16)>>

\* int mouses[] = { 1005, 1006, 1015, 1016 };
mouses == <<1005, 1006, 1015, 1016>>

\* line 118: CSI "?%d$p"
ReqDeccheck(number) == CSI \o <<63>> \o Dec(number) \o <<36, 112>>

\* line 129: CSI "?%dh" "%d: "
ReqMouse(mode) == CSI \o <<63>> \o Dec(mode) \o <<104>> \o Dec(mode) \o <<58, 32>>

\* line 247: OSC "4;9;rgb:%02x/%02x/%02x" BEL for r, 0, 0
ReqColour(v) ==
    OSC \o <<52, 59, 57, 59, 114, 103, 98, 58>> \o Hex2(v) \o <<47>> \o Hex2(0)
        \o <<47>> \o Hex2(0) \o BEL

\* line 260: OSC "P9%02x%02x%02x" for r, 0, 0
ReqPalette(v) == OSC \o <<80, 57>> \o Hex2(v) \o Hex2(0) \o Hex2(0)

\* The lines of main and test_mouse that call comm().
CommSites ==
    {"L186", "L199", "L236", "L248", "L252", "L254", "L261", "L320", "L322", "L327",
     "L349", "L353", "L360", "L365", "L368", "L373", "L379", "L125", "L130", "L157",
     "L382", "L389", "L400", "L401", "L405", "L409", "L411", "L414"}

\* Those whose Response is dropped, and the line that follows each.
PlainNext ==
    [L186 |-> "L199", L252 |-> "L261", L254 |-> "L261", L320 |-> "L322",
     L322 |-> "L327", L327 |-> "L331", L349 |-> "L353", L353 |-> "L359",
     L365 |-> "L368", L373 |-> "L377", L125 |-> "L130", L157 |-> "L377",
     L382 |-> "L389", L400 |-> "L401", L401 |-> "L404", L411 |-> "L414",
     L414 |-> "L417"]

\* comm's first argument at line p
ReqAt(p) ==
    CASE p = "L186" -> Req186
      [] p = "L199" -> Req199
      [] p = "L236" -> Req236
      [] p = "L248" -> ReqColour(r)
      [] p = "L252" -> bright_red_save
      [] p = "L254" -> Req254
      [] p = "L261" -> ReqPalette(r)
      [] p = "L320" -> Req320
      [] p = "L322" -> Req322
      [] p = "L327" -> Req327
      [] p = "L349" -> <<>>
      [] p = "L353" -> Req353
      [] p = "L360" -> Req360
      [] p = "L365" -> Req365
      [] p = "L368" -> <<>>
      [] p = "L373" -> Req373
      [] p = "L379" -> ReqDeccheck(mouses[mi + 1])
      [] p = "L125" -> Req125
      [] p = "L130" -> ReqMouse(mouses[mi + 1])
      [] p = "L157" -> Req157
      [] p = "L382" -> Req382
      [] p = "L389" -> Req389
      [] p = "L400" -> Req400
      [] p = "L401" -> Req401
      [] p = "L405" -> ReqDeccheck(2004)
      [] p = "L409" -> Req409
      [] p = "L411" -> Req411
      [] p = "L414" -> Req414

\* comm's second argument at line p
WaitAt(p) ==
    p \in {"L186", "L320", "L322", "L349", "L360", "L368", "L130", "L157", "L401",
           "L409", "L414"}

\* The process is no more.
Terminated == pc \in {"exit", "aborted", "killed", "crashed"}

\* strncmp(s, lit, Len(lit)) == 0 for a literal without NUL
has_prefix(s, lit) == Len(s) >= Len(lit) /\ SubSeq(s, 1, Len(lit)) = lit

\* The index (from 0) of the first byte of s at or after i that is BEL, the
\* 8-bit ST or ESC, or -1: strpbrk(s + i, BEL ST8 "\x1b")
RECURSIVE strpbrk_term(_, _)
strpbrk_term(s, i) ==
    IF i >= Len(s) THEN -1
    ELSE IF At(s, i) \in {7, 156, 27} THEN i
    ELSE strpbrk_term(s, i + 1)

\* The index (from 0) of the last ';' of s, or -1: strrchr(s, ';')
RECURSIVE strrchr_semi(_, _)
strrchr_semi(s, i) ==
    IF i < 0 THEN -1 ELSE IF At(s, i) = 59 THEN i ELSE strrchr_semi(s, i - 1)

InitMain ==
    /\ pc = "L172"
    /\ orig \in OrigAttrs
    /\ tattr = orig
    /\ saved_termios = ZeroTermios
    /\ cbreak_ok = FALSE
    /\ cb_line = 0 /\ cb_reset = "none"
    /\ restores = 0
    /\ cpc = "idle"
    /\ req = <<>> /\ wait_first = FALSE
    /\ len = 0 /\ n = 0 /\ buf = <<>>
    /\ resp = <<>> /\ ret_line = 0
    /\ npolls = 0 /\ nreads = 0 /\ nwrites = 0
    /\ tty_in = <<>> /\ src = <<>>
    /\ ssh \in BOOLEAN
    /\ sched0 = <<>>
    /\ arrivals = 0 /\ hup = FALSE /\ fault = FALSE
    /\ decrqm_supported = FALSE /\ bright_red_save = <<>> /\ r = 0 /\ mi = 0
    /\ ws = [col |-> 0, row |-> 0]
    /\ report = NoReport
    /\ calls = 0 /\ results = <<>>
    /\ p_resp = <<>> /\ p_ret = 0

\* The memory of a process that has ended is gone, and so is its claim on the
\* terminal's input.
process_gone ==
    /\ comm_leave
    /\ tty_in' = <<>> /\ src' = <<>> /\ arrivals' = 0 /\ fault' = FALSE
    /\ decrqm_supported' = FALSE /\ bright_red_save' = <<>> /\ r' = 0 /\ mi' = 0
    /\ ws' = [col |-> 0, row |-> 0]
    /\ report' = NoReport

\* Lines 172-173 without the test: main goes on whatever tty_cbreak answered.
after_cbreak_unchecked(ok) == "L182"

\* Lines 172-173: where main goes on tty_cbreak's answer.
after_cbreak(ok) == IF ok THEN "L182" ELSE "aborted"

\* Lines 172-173: if (!tty_cbreak()) abort();
main_cbreak ==
    /\ pc = "L172"
    /\ \E o \in tty_cbreak_outcomes(tattr, saved_termios) :
        /\ tattr' = o.attr
        /\ saved_termios' = o.saved
        /\ cbreak_ok' = o.ret
        /\ cb_line' = o.line
        /\ cb_reset' = o.reset
        /\ tty_in' = IF o.flushed THEN <<>> ELSE tty_in
        /\ pc' = after_cbreak(o.ret)
    /\ UNCHANGED <<orig, restores, commVars, src, arrivals, hup, fault, ssh, mainVars,
                   harnVars, parsVars>>

\* Lines 181-183: if (setupterm((char *)term, 1, &err) != OK) abort();
main_setupterm ==
    /\ pc = "L182"
    /\ \E ok \in BOOLEAN : pc' = IF ok THEN "L186" ELSE "aborted"
    /\ UNCHANGED <<ttyVars, commVars, termVars, ssh, mainVars, harnVars, parsVars>>

\* A signal whose default action ends the process (SIGINT, SIGTERM, SIGHUP):
\* no handler is installed.
main_killed ==
    /\ ~Terminated
    /\ pc' = "killed"
    /\ process_gone
    /\ UNCHANGED <<ttyVars, hup, ssh, harnVars, parsVars>>

\* A call of comm() from main or test_mouse.
main_call ==
    /\ pc \in CommSites
    /\ comm_call(ReqAt(pc), WaitAt(pc))
    /\ report' = NoReport
    /\ UNCHANGED <<pc, ttyVars, ssh, decrqm_supported, bright_red_save, r, mi, ws,
                   harnVars, parsVars>>

\* The return of a comm() whose Response is dropped; the for statements of
\* lines 258 and 377 start, and line 377 counts, here.
main_ignore ==
    /\ pc \in DOMAIN PlainNext
    /\ cpc = "ret"
    /\ comm_leave
    /\ pc' = PlainNext[pc]
    /\ r' = IF pc \in {"L252", "L254"} THEN 0 ELSE r
    /\ mi' = IF pc = "L373" THEN 0 ELSE IF pc = "L157" THEN mi + 1 ELSE mi
    /\ UNCHANGED <<ttyVars, termVars, ssh, decrqm_supported, bright_red_save, ws, report,
                   harnVars, parsVars>>

\* The process ends on a fault; what it held is left as it was.
crash ==
    /\ pc' = "crashed"
    /\ UNCHANGED <<ttyVars, commVars, termVars, ssh, mainVars, harnVars, parsVars>>

\* Lines 199-201: bool decrqm_supported = rpm && parse_decrpm(rpm) >= 0;
main_decrqm ==
    /\ pc = "L199" /\ cpc = "ret"
    /\ \E einval \in BOOLEAN :
        decrqm_supported' = (resp # NULL /\ parse_decrpm(resp, einval) >= 0)
    /\ report' = [NoReport EXCEPT !.kind = "DECRQM",
                                  !.nums = <<IF decrqm_supported' THEN 1 ELSE 0>>]
    /\ comm_leave
    /\ pc' = "L236"
    /\ UNCHANGED <<ttyVars, termVars, ssh, bright_red_save, r, mi, ws, harnVars, parsVars>>

\* Lines 236-241: the colour query's reply, and what is kept to restore it.
main_colour_save ==
    /\ pc = "L236" /\ cpc = "ret"
    /\ IF resp = NULL
       THEN \E ub \in NullAccess :
              IF ub = "crash" THEN crash
              ELSE /\ bright_red_save' = NULL
                   /\ report' = report
                   /\ comm_leave /\ pc' = "L248" /\ r' = 0
                   /\ UNCHANGED <<ttyVars, termVars, ssh, decrqm_supported, mi, ws,
                                  harnVars, parsVars>>
       ELSE IF has_prefix(resp, OSC \o <<52, 59>>)
       THEN LET t == strpbrk_term(resp, 4) IN
            \E ub \in (IF t < 0 THEN NullAccess ELSE {"benign"}) :
              IF ub = "crash" THEN crash
              ELSE /\ bright_red_save' = resp
                   /\ report' = [NoReport EXCEPT !.kind = "colour",
                                    !.text = SubSeq(resp, 5, IF t < 0 THEN Len(resp) ELSE t)]
                   /\ comm_leave /\ pc' = "L248" /\ r' = 0
                   /\ UNCHANGED <<ttyVars, termVars, ssh, decrqm_supported, mi, ws,
                                  harnVars, parsVars>>
       ELSE /\ bright_red_save' = <<>>
            /\ report' = report
            /\ comm_leave /\ pc' = "L248" /\ r' = 0
            /\ UNCHANGED <<ttyVars, termVars, ssh, decrqm_supported, mi, ws,
                           harnVars, parsVars>>

\* Lines 245-250 (from "L248", to "L251") and 258-263 (from "L261", to "L320"):
\* if (*comm(buf, false)) break; poll(NULL, 0, 50); and the for statement's r += 8
colour_loop(here, after) ==
    /\ pc = here /\ cpc = "ret"
    /\ \E ub \in (IF resp = NULL THEN NullAccess ELSE {"benign"}) :
         IF ub = "crash" THEN crash
         ELSE /\ IF resp # NULL /\ resp # <<>>
                 THEN /\ pc' = after
                      /\ r' = 0
                      /\ UNCHANGED <<tty_in, src>>
                 ELSE /\ tty_in' = Elapse(50, tty_in, src).q
                      /\ src' = Elapse(50, tty_in, src).s
                      /\ r' = IF r + 8 < 255 THEN r + 8 ELSE 0
                      /\ pc' = IF r + 8 < 255 THEN here ELSE after
              /\ comm_leave
              /\ UNCHANGED <<ttyVars, arrivals, hup, fault, ssh, decrqm_supported,
                             bright_red_save, mi, ws, report, harnVars, parsVars>>

main_colour_loop == colour_loop("L248", "L251")

main_palette_loop == colour_loop("L261", "L320")

\* Lines 251-254: if (*bright_red_save) ... else ...
main_colour_restore ==
    /\ pc = "L251"
    /\ \E ub \in (IF bright_red_save = NULL THEN NullAccess ELSE {"benign"}) :
         IF ub = "crash" THEN crash
         ELSE /\ pc' = IF bright_red_save # NULL /\ bright_red_save # <<>>
                       THEN "L252" ELSE "L254"
              /\ UNCHANGED <<ttyVars, commVars, termVars, ssh, mainVars, harnVars,
                             parsVars>>

\* Lines 330-348: with WINDOWID set, the wait for a refresh and the picture;
\* glob() may have found no file, and then gb.gl_pathv is null.
main_w3m ==
    /\ pc = "L331"
    /\ \E windowid \in BOOLEAN, found \in BOOLEAN :
         IF ~windowid
         THEN /\ pc' = "L353"
              /\ UNCHANGED <<ttyVars, commVars, termVars, ssh, mainVars, harnVars,
                             parsVars>>
         ELSE \E ub \in (IF found THEN {"benign"} ELSE NullAccess) :
                IF ub = "crash"
                THEN crash
                ELSE /\ tty_in' = Elapse(50, tty_in, src).q
                     /\ src' = Elapse(50, tty_in, src).s
                     /\ pc' = "L349"
                     /\ UNCHANGED <<ttyVars, commVars, arrivals, hup, fault, ssh,
                                    mainVars, harnVars, parsVars>>

\* The window sizes ioctl(TIOCGWINSZ) may report.
WinSizes == {[col |-> 80, row |-> 24], [col |-> 223, row |-> 50]}

\* Line 359: while (!ioctl(STDIN_FILENO, TIOCGWINSZ, &ws) && ws.ws_col < 223)
main_width ==
    /\ pc = "L359"
    /\ \/ /\ pc' = "L365"
          /\ ws' = ws
       \/ \E w \in WinSizes :
          /\ ws' = w
          /\ pc' = IF w.col < 223 THEN "L360" ELSE "L365"
    /\ UNCHANGED <<ttyVars, commVars, termVars, ssh, decrqm_supported, bright_red_save,
                   r, mi, report, harnVars, parsVars>>

\* Lines 360-362: if (!*comm(..., true)) break;
main_width_prompt ==
    /\ pc = "L360" /\ cpc = "ret"
    /\ \E ub \in (IF resp = NULL THEN NullAccess ELSE {"benign"}) :
         IF ub = "crash" THEN crash
         ELSE /\ pc' = IF resp = NULL \/ resp = <<>> THEN "L365" ELSE "L359"
              /\ comm_leave
              /\ UNCHANGED <<ttyVars, termVars, ssh, mainVars, harnVars, parsVars>>

\* Line 369 with only the two focus reports keeping the loop going.
focus_continues_on_reports(in) ==
    has_prefix(in, CSI \o <<73>>) \/ has_prefix(in, CSI \o <<79>>)

\* Line 369: if (*in != '\x1b') break;
focus_continues(in) == At(in, 0) = 27

\* Lines 368-371: one round of the focus loop.
main_focus ==
    /\ pc = "L368" /\ cpc = "ret"
    /\ \E ub \in (IF resp = NULL THEN NullAccess ELSE {"benign"}) :
         IF ub = "crash" THEN crash
         ELSE /\ IF resp = NULL \/ ~focus_continues(resp)
                 THEN pc' = "L373" /\ report' = report
                 ELSE /\ pc' = "L368"
                      /\ report' =
                           IF At(resp, 1) = 91 /\ At(resp, 2) = 73
                           THEN [NoReport EXCEPT !.kind = "Focused in."]
                           ELSE IF At(resp, 1) = 91 /\ At(resp, 2) = 79
                           THEN [NoReport EXCEPT !.kind = "Focused out."]
                           ELSE report
              /\ comm_leave
              /\ UNCHANGED <<ttyVars, termVars, ssh, decrqm_supported, bright_red_save,
                             r, mi, ws, harnVars, parsVars>>

\* Lines 377-379: for (...; i < sizeof mouses / sizeof *mouses; ...) if (decrqm_supported)
main_mouse_loop ==
    /\ pc = "L377"
    /\ pc' = IF mi < Len(mouses)
             THEN IF decrqm_supported THEN "L379" ELSE "L124"
             ELSE "L382"
    /\ UNCHANGED <<ttyVars, commVars, termVars, ssh, mainVars, harnVars, parsVars>>

\* Line 119 of deccheck(number), called at line here: decrpmstr(parse_decrpm(comm(...)))
deccheck(here, number, after) ==
    /\ pc = here /\ cpc = "ret"
    /\ \E ub \in (IF resp = NULL THEN NullAccess ELSE {"benign"}), einval \in BOOLEAN :
         IF ub = "crash" THEN crash
         ELSE /\ report' = [NoReport EXCEPT
                    !.kind = "DECRQM(%d)", !.nums = <<number>>,
                    !.str = decrpmstr(parse_decrpm(IF resp = NULL THEN <<>> ELSE resp,
                                                   einval))]
              /\ comm_leave
              /\ pc' = after
              /\ UNCHANGED <<ttyVars, termVars, ssh, decrqm_supported, bright_red_save,
                             r, mi, ws, harnVars, parsVars>>

\* Line 379: deccheck(mouses[i])
main_deccheck_mouse == mi < Len(mouses) /\ deccheck("L379", mouses[mi + 1], "L124")

\* Line 405: deccheck(2004)
main_deccheck_paste == deccheck("L405", 2004, "L409")

\* Line 124 of test_mouse: ioctl(STDIN_FILENO, TIOCGWINSZ, &ws), unchecked
test_mouse_winsize ==
    /\ pc = "L124"
    /\ ws' \in WinSizes \cup {ws}
    /\ pc' = "L125"
    /\ UNCHANGED <<ttyVars, commVars, termVars, ssh, decrqm_supported, bright_red_save,
                   r, mi, report, harnVars, parsVars>>

\* Lines 130-155 of test_mouse: the event is decoded and printed.
test_mouse_decode ==
    /\ pc = "L130" /\ cpc = "ret"
    /\ \E ub \in (IF resp = NULL THEN NullAccess ELSE {"benign"}) :
         IF ub = "crash" THEN crash
         ELSE /\ report' = test_mouse_report(IF resp = NULL THEN <<>> ELSE resp, ws)
              /\ comm_leave
              /\ pc' = "L157"
              /\ UNCHANGED <<ttyVars, termVars, ssh, decrqm_supported, bright_red_save,
                             r, mi, ws, harnVars, parsVars>>

\* Lines 389-398: the selection's reply.
main_selection ==
    /\ pc = "L389" /\ cpc = "ret"
    /\ LET hit == resp # NULL /\ has_prefix(resp, OSC \o <<53, 50, 59>>)
           semi == strrchr_semi(resp, Len(resp) - 1)
           t == strpbrk_term(resp, semi)
       IN  \E ub \in (IF resp = NULL \/ (hit /\ t < 0) THEN NullAccess ELSE {"benign"}) :
             IF ub = "crash" THEN crash
             ELSE /\ report' =
                       IF hit
                       THEN [NoReport EXCEPT !.kind = "selection",
                               !.text = SubSeq(resp, semi + 2,
                                               IF t < 0 THEN Len(resp) ELSE t)]
                       ELSE report
                  /\ comm_leave
                  /\ pc' = "L400"
                  /\ UNCHANGED <<ttyVars, termVars, ssh, decrqm_supported,
                                 bright_red_save, r, mi, ws, harnVars, parsVars>>

\* Line 404: if (decrqm_supported)
main_paste_check ==
    /\ pc = "L404"
    /\ pc' = IF decrqm_supported THEN "L405" ELSE "L409"
    /\ UNCHANGED <<ttyVars, commVars, termVars, ssh, mainVars, harnVars, parsVars>>

\* Lines 409-410: printf("%d\n", !strncmp(pasted, CSI "200~", 6));
main_paste ==
    /\ pc = "L409" /\ cpc = "ret"
    /\ \E ub \in (IF resp = NULL THEN NullAccess ELSE {"benign"}) :
         IF ub = "crash" THEN crash
         ELSE /\ report' = [NoReport EXCEPT !.kind = "paste",
                    !.nums = <<IF resp # NULL /\ has_prefix(resp, CSI \o <<50, 48, 48, 126>>)
                               THEN 1 ELSE 0>>]
              /\ comm_leave
              /\ pc' = "L411"
              /\ UNCHANGED <<ttyVars, termVars, ssh, decrqm_supported, bright_red_save,
                             r, mi, ws, harnVars, parsVars>>

\* Line 50, tty_atexit(): tcsetattr(STDIN_FILENO, TCSAFLUSH, &saved_termios)
tty_atexit_outcomes(cur, saved) == TcsetattrOutcomes(cur, saved)

\* Lines 417-418: tty_atexit(); return 0;
main_exit ==
    /\ pc = "L417"
    /\ \E o \in tty_atexit_outcomes(tattr, saved_termios) : tattr' = o.attr
    /\ restores' = restores + 1
    /\ pc' = "exit"
    /\ process_gone
    /\ UNCHANGED <<orig, saved_termios, cbreak_ok, cb_line, cb_reset, hup, ssh, harnVars,
                   parsVars>>

\* What the terminal, or the person at it, may send.
Replies ==
    {KeyReply, DecrpmSetReply, FocusInReply, SgrMouseReply, ColourReply, ColourCutReply,
     SelectionReply, PasteReply}

\* While comm() waits, the terminal decides to send something: a little
\* before the idle timeout runs out, or a little after.
term_input ==
    /\ ~Terminated
    /\ cpc \in {"L79", "L83"}
    /\ src = <<>> /\ ~hup
    /\ arrivals < MaxArrivals
    /\ \E d \in Replies, g \in {lag - 1, lag + 1} : src' = <<[gap |-> g, data |-> d]>>
    /\ arrivals' = arrivals + 1
    /\ UNCHANGED <<pc, ttyVars, commVars, tty_in, hup, fault, ssh, mainVars, harnVars,
                   parsVars>>

Init == InitMain

Next ==
    \/ main_cbreak \/ main_setupterm \/ main_killed
    \/ main_call \/ main_ignore \/ comm_step \/ term_input
    \/ main_decrqm \/ main_colour_save \/ main_colour_loop \/ main_colour_restore
    \/ main_palette_loop \/ main_w3m \/ main_width \/ main_width_prompt
    \/ main_focus \/ main_mouse_loop \/ main_deccheck_mouse \/ test_mouse_winsize
    \/ test_mouse_decode \/ main_selection \/ main_paste_check \/ main_deccheck_paste
    \/ main_paste \/ main_exit

Spec == Init /\ [][Next]_vars

----------------------------------------------------------------------------
(* A harness that hands the mouse decoder of test_mouse one Response.      *)

\* The bytes the harness writes legacy reports with: one below 32, '!', '#'
\* and one above 127.
LegacyBytes == {31, 33, 35, 200}

\* What the harness appends to a report: nothing, a letter, a second report.
MouseTails == {<<>>, <<120>>, CSI \o <<73>>}

\* The numbers the harness writes into number fields,
MouseNumbers == {0, 5, 31, 32, 65, 300}

\* and the fields: those numbers in decimal, and 2^32 + 65.
MouseFields ==
    {Dec(v) : v \in MouseNumbers} \cup {<<52, 50, 57, 52, 57, 54, 55, 51, 54, 49>>}

\* ESC [ M b x y
LegacyReport(b, x, y) == CSI \o <<77, b, x, y>>

\* ESC [ < b ; x ; y m
SgrReport(b, x, y, m) == CSI \o <<60>> \o b \o <<59>> \o x \o <<59>> \o y \o <<m>>

\* ESC [ b ; x ; y m
UrxvtReport(b, x, y, m) == CSI \o b \o <<59>> \o x \o <<59>> \o y \o <<m>>

MouseInputs ==
    {LegacyReport(b, x, y) \o t : b \in LegacyBytes, x \in {31, 34}, y \in {31, 35},
                                  t \in MouseTails}
    \cup {SgrReport(b, x, Dec(10), m) \o t :
            b \in MouseFields, x \in {Dec(5), Dec(300)}, m \in {77, 109, 120},
            t \in MouseTails}
    \cup {UrxvtReport(b, x, Dec(10), m) \o t :
            b \in MouseFields, x \in {Dec(5), Dec(300)}, m \in {77, 109},
            t \in MouseTails}
    \cup {<<>>, <<120>>, CSI, CSI \o <<77>>, CSI \o <<77, 33, 33>>, CSI \o <<60>>,
          CSI \o <<60, 48, 59, 49>>, CSI \o <<48, 59, 49, 59, 49>>,
          UrxvtReport(<<32, 54, 53>>, Dec(5), Dec(10), 77),
          UrxvtReport(<<43, 54, 53>>, Dec(5), Dec(10), 77),
          UrxvtReport(<<45, 49>>, Dec(5), Dec(10), 77),
          SgrReport(Dec(0), <<32, 53>>, Dec(10), 77),
          SgrReport(Dec(0), Dec(5), <<45, 49>>, 109)}

InitMouse ==
    /\ pc = "mouse"
    /\ orig = Termios(TRUE, TRUE, 1, 0)
    /\ saved_termios = orig
    /\ tattr = CbreakOf(orig)
    /\ cbreak_ok = TRUE
    /\ cb_line = 69 /\ cb_reset = "none"
    /\ restores = 0
    /\ cpc = "idle"
    /\ req = <<>> /\ wait_first = FALSE
    /\ len = 0 /\ n = 0 /\ buf = <<>>
    /\ resp = <<>> /\ ret_line = 0
    /\ npolls = 0 /\ nreads = 0 /\ nwrites = 0
    /\ tty_in = <<>> /\ src = <<>>
    /\ ssh = FALSE
    /\ sched0 = <<>>
    /\ arrivals = 0 /\ hup = FALSE /\ fault = FALSE
    /\ decrqm_supported = FALSE /\ bright_red_save = <<>> /\ r = 0 /\ mi = 0
    /\ ws \in WinSizes
    /\ report = NoReport
    /\ calls = 0 /\ results = <<>>
    /\ p_resp \in MouseInputs
    /\ p_ret = 0

\* Lines 132-155 of test_mouse on the Response handed in
apply_test_mouse ==
    /\ pc = "mouse"
    /\ report' = test_mouse_report(p_resp, ws)
    /\ pc' = "decoded"
    /\ UNCHANGED <<ttyVars, commVars, termVars, ssh, decrqm_supported, bright_red_save,
                   r, mi, ws, harnVars, parsVars>>

NextMouse == apply_test_mouse

SpecMouse == InitMouse /\ [][NextMouse]_vars

----------------------------------------------------------------------------
(* Claims about the whole run, checked under Spec.                          *)

\* C1: on every path by which the process ends after tty_cbreak() returned
\* true (the return from main, an abort(), a signal), the terminal's
\* attributes are the saved ones and tty_atexit() has run exactly once.
C1_RestoredOnEveryExit ==
    (pc \in {"exit", "aborted", "killed"} /\ cbreak_ok)
        => (tattr = saved_termios /\ restores = 1)

\* C2: no consumer of comm()'s return value reads through an absent Response:
\* the process never ends on a fault while holding a null Response.
C2_AbsentIsNeverRead == ~(pc = "crashed" /\ cpc = "ret" /\ resp = NULL)

\* C8: whenever tty_cbreak() returns false, the terminal's attributes are
\* those it had before the call.
C8_FalseLeavesAttributes == (pc = "aborted" /\ ~cbreak_ok) => tattr = orig

\* C9: no request is written, and no comm() is under way, unless tty_cbreak()
\* has returned true; once it has returned false the process has aborted.
C9_NoRequestBeforeCbreak ==
    ~cbreak_ok => (pc \in {"L172", "aborted", "killed"} /\ cpc = "idle" /\ nwrites = 0)

\* tty_cbreak() failed at its verification and main aborted with nothing written.
C9_Witness == pc = "aborted" /\ ~cbreak_ok /\ cb_line = 67 /\ nwrites = 0

\* C13: the handling of the OSC colour and selection replies never faults on
\* a Response that is not absent: the process never ends on a fault while it
\* holds such a Response.
C13_OscReplyNeverFaults == ~(pc = "crashed" /\ cpc = "ret" /\ resp # NULL)

\* The focus loop takes a Response that is not absent, and the process is not
\* ended by a signal at that moment.
FocusRound == pc = "L368" /\ cpc = "ret" /\ resp # NULL /\ pc' # "killed"

\* The Response begins with the focus-in or the focus-out report.
FocusReport(s) == has_prefix(s, CSI \o <<73>>) \/ has_prefix(s, CSI \o <<79>>)

\* C16 as claimed: the focus loop goes on exactly when the Response begins
\* with ESC [ I or ESC [ O; any other capture ends it.
C16_LoopOnlyOnFocusReports ==
    [][FocusRound => (pc' = "L368" <=> FocusReport(resp))]_vars

\* C16 as amended: the focus loop goes on exactly when the Response begins
\* with ESC; ESC [ I is reported as focus in, ESC [ O as focus out and any
\* other Response that begins with ESC is passed over in silence; a Response
\* that does not begin with ESC, the empty one included, ends the loop, and
\* the next request is the one that disables modes 1000 and 1004.
C16_LoopWhileEsc ==
    [][/\ FocusRound =>
            IF At(resp, 0) = 27
            THEN /\ pc' = "L368"
                 /\ report' = IF has_prefix(resp, CSI \o <<73>>)
                              THEN [NoReport EXCEPT !.kind = "Focused in."]
                              ELSE IF has_prefix(resp, CSI \o <<79>>)
                              THEN [NoReport EXCEPT !.kind = "Focused out."]
                              ELSE report
            ELSE pc' = "L373" /\ report' = report
       /\ (pc = "L373" /\ cpc = "idle" /\ cpc' # "idle") => req' = Req373]_vars

\* C16's case: the focus loop holds a Response that begins with ESC and is
\* neither focus report.
C16_Witness ==
    pc = "L368" /\ cpc = "ret" /\ resp # NULL /\ At(resp, 0) = 27 /\ ~FocusReport(resp)

----------------------------------------------------------------------------
(* Claims about comm(), checked under SpecComm.                             *)

\* The most bytes a Response can hold.
Capacity == BufSize - 1

\* comm() has returned, and no system call of it failed.
ReturnedClean == cpc = "ret" /\ ~fault

\* C3: when the terminal delivers more than 999 bytes to one comm() call
\* without an idle gap (the buffer is full and bytes are still unread) and no
\* system call failed, comm() returns the first 999 bytes as a Response.
C3_FullBufferIsReturned ==
    (ReturnedClean /\ Len(buf) = Capacity /\ tty_in # <<>>)
        => (resp # NULL /\ resp = strdup(buf))

\* C4: whenever the write fails or accepts fewer bytes than the request holds,
\* comm() returns an absent Response at once, having polled and read nothing
\* and written once.
C4_FailedWriteIsAbsent ==
    /\ (nwrites = 1 /\ npolls = 0 /\ nreads = 0 /\ len < strlen(req))
          => (cpc = "ret" /\ resp = NULL)
    /\ (cpc = "ret" /\ ret_line = 76)
          => (npolls = 0 /\ nreads = 0 /\ nwrites = 1)

\* The loop of comm() has ended on a failed poll or a failed read.
LoopError == cpc = "ret" /\ (n < 0 \/ (nreads > 0 /\ len < 0))

\* C5 as claimed: a poll or read error in the loop yields an absent Response
\* before any byte was accumulated, and the bytes captured so far after.
C5_ErrorKeepsCapturedBytes ==
    LoopError => IF buf = <<>> THEN resp = NULL ELSE resp = strdup(buf)

\* C5 as amended: a poll or read error in the loop yields an absent Response
\* whether or not bytes were accumulated before it.
C5_ErrorIsAlwaysAbsent == LoopError => resp = NULL

\* C5's case: the loop ended on an error after bytes had been accumulated.
C5_Witness == LoopError /\ buf # <<>> /\ resp = NULL

\* C7: a comm() call with wait_first that returns a Response (not NULL) has
\* seen at least one input byte become available.
C7_WaitFirstSawInput ==
    (cpc = "ret" /\ wait_first /\ resp # NULL) => (buf # <<>> \/ tty_in # <<>>)

\* The bursts of a schedule under idle timeout l: a chunk that arrives less
\* than l after the one before it belongs to the same burst.
RECURSIVE Bursts(_, _)
Bursts(sched, l) ==
    IF sched = <<>> THEN <<>>
    ELSE LET front == Bursts(SubSeq(sched, 1, Len(sched) - 1), l)
             last == sched[Len(sched)] IN
         IF front # <<>> /\ last.gap < l
         THEN [front EXCEPT ![Len(front)] = @ \o last.data]
         ELSE Append(front, last.data)

\* No chunk after the first arrives exactly l after the one before it.
StrictGaps(sched, l) == \A i \in 2..Len(sched) : sched[i].gap # l

\* No chunk holds a NUL byte.
NulFree(sched) == \A i \in 1..Len(sched) : \A j \in 1..Len(sched[i].data) : sched[i].data[j] # 0

\* The first k elements of a sequence.
Take(q, k) == SubSeq(q, 1, Min(Len(q), k))

\* a occurs in b as a subsequence: the elements of a, in order, among those of b.
RECURSIVE IsSubseq(_, _)
IsSubseq(a, b) ==
    IF a = <<>> THEN TRUE
    ELSE IF b = <<>> THEN FALSE
    ELSE IF Head(a) = Head(b) THEN IsSubseq(Tail(a), Tail(b))
    ELSE IsSubseq(a, Tail(b))

\* The harness is between calls, the terminal has nothing more to deliver and
\* no system call has failed.
SourceDrained ==
    /\ pc = "harness" /\ cpc = "idle"
    /\ src = <<>> /\ tty_in = <<>> /\ ~hup
    /\ \A i \in 1..Len(results) : ~results[i].fault

\* C6: for a source of NUL-free bytes with no gap equal to the idle timeout,
\* once the source is drained every burst (the bytes with gaps shorter than
\* the timeout, up to the capacity) has been returned as one Response, and
\* the bursts' Responses came in order.
C6_IdleFraming ==
    (SourceDrained /\ StrictGaps(sched0, lag) /\ NulFree(sched0))
        => IsSubseq([i \in 1..Len(Bursts(sched0, lag)) |->
                        Take(Bursts(sched0, lag)[i], Capacity)],
                    [i \in 1..Len(results) |-> results[i].resp])

\* C18: buf_len never exceeds 999, a read is asked for no more than
\* 999 - buf_len bytes (and for no negative count), and a returned Response
\* holds no more than 999 bytes.
C18_BufferBounded ==
    /\ Len(buf) <= Capacity
    /\ cpc = "L85" => read_count(buf) \in 0..(Capacity - Len(buf))
    /\ (cpc = "ret" /\ resp # NULL) => Len(resp) <= Capacity

\* C18's case: the buffer is full and a read is about to be asked for nothing.
C18_Witness == cpc = "L85" /\ Len(buf) = Capacity /\ tty_in # <<>>

----------------------------------------------------------------------------
(* Claims about comm() before an endless sender, checked under SpecStream. *)

\* C19: every comm() call with wait_first = false returns, whatever the
\* terminal does; and while the loop goes on every read made has added to the
\* buffer, which holds 999 bytes at most, so that no more than 999 reads
\* succeed.
C19_NoWaitCallTerminates ==
    /\ [](/\ cpc \in {"L83", "L85"} => nreads <= Len(buf)
          /\ Len(buf) <= Capacity
          /\ nreads <= Capacity + 1)
    /\ (cpc = "L75" /\ ~wait_first) ~> (cpc = "ret")

\* C19's case: the terminal never stopped sending, and the call has returned
\* after 999 reads of a byte each and one more.
C19_Witness == cpc = "ret" /\ ~wait_first /\ nreads = Capacity + 1 /\ Len(buf) = Capacity

----------------------------------------------------------------------------
(* Claims about the parsers, checked under SpecParse.                       *)

\* C10: for every mode field of decimal digits within long's range and every
\* status 0..4, parse_decrpm of exactly ESC [ ? <mode> ; <status> $ y returns
\* that status.
C10_ExactReplyYieldsStatus ==
    \A m \in ValidModes, st \in 0..4 :
        (pc = "parsed" /\ p_resp = DecrpmReply(m, 48 + st, <<>>)) => p_ret = st

\* C10's case: the reply for the largest long, with status 4, has been parsed.
C10_Witness ==
    pc = "parsed" /\ p_resp = DecrpmReply(MagBytes(LongMaxMag), 52, <<>>) /\ p_ret = 4

\* The Responses of the grammar ESC [ ? <one or more digits> ; <0..4> $ y whose
\* mode is within long's range.
DecrpmGrammar ==
    {DecrpmReply(m, st, <<>>) : m \in ValidModes, st \in 48..52}

\* C11: parse_decrpm returns -1 for every Response outside the grammar
\* ESC [ ? <one or more digits> ; <one digit 0..4> $ y: a byte after the y, a
\* status digit 5..9, an empty, signed or spaced mode field, an overflowing
\* mode and the empty Response.
C11_OutsideGrammarIsInvalid ==
    (pc = "parsed" /\ p_resp \notin DecrpmGrammar) => p_ret = -1

----------------------------------------------------------------------------
(* Claims about the mouse decoder, checked under SpecMouse.                 *)

\* Where the fields b ; x ; y of decimal digits that start at s[i] end, or -1
\* when s[i..] does not start with three such fields.
BxyEnd(s, i) ==
    LET e1 == SkipDigits(s, i)
        e2 == SkipDigits(s, e1 + 1)
        e3 == SkipDigits(s, e2 + 1)
    IN  IF e1 > i /\ At(s, e1) = 59 /\ e2 > e1 + 1 /\ At(s, e2) = 59 /\ e3 > e2 + 1
        THEN e3 ELSE -1

\* ESC [ M and three bytes that are all 32 or more, whatever follows
LegacyGrammar(s) ==
    has_prefix(s, CSI \o <<77>>) /\ Len(s) >= 6 /\ s[4] >= 32 /\ s[5] >= 32 /\ s[6] >= 32

\* ESC [ < b ; x ; y and M or m, followed by extra bytes when extra
SgrGrammar(s, extra) ==
    /\ has_prefix(s, CSI \o <<60>>)
    /\ BxyEnd(s, 3) >= 0
    /\ At(s, BxyEnd(s, 3)) \in {77, 109}
    /\ IF extra THEN Len(s) > BxyEnd(s, 3) + 1 ELSE Len(s) = BxyEnd(s, 3) + 1

\* ESC [ b ; x ; y M, followed by extra bytes when extra
UrxvtGrammar(s, extra) ==
    /\ has_prefix(s, CSI)
    /\ BxyEnd(s, 2) >= 0
    /\ At(s, BxyEnd(s, 2)) = 77
    /\ IF extra THEN Len(s) > BxyEnd(s, 2) + 1 ELSE Len(s) = BxyEnd(s, 2) + 1

\* C12: a Response that matches the SGR-like or the urxvt-like grammar but has
\* extra bytes after the final M or m is reported as "Failed to parse.".
C12_TrailingBytesFail ==
    (pc = "decoded" /\ (SgrGrammar(p_resp, TRUE) \/ UrxvtGrammar(p_resp, TRUE)))
        => report.kind = "Failed to parse."

\* C14: a Response that begins ESC [ M with three bytes b, x, y of 32 or more
\* is decoded as button b-32, column x-32, row y-32 exactly when it is 6 bytes
\* long; a longer one is reported as the 1005 variant with its bytes (those
\* from 32 to 127 as they are) and without numbers.
C14_LegacyBySize ==
    (pc = "decoded" /\ LegacyGrammar(p_resp))
        => IF Len(p_resp) = 6
           THEN /\ report.kind = "1000/1005"
                /\ report.nums = <<p_resp[4] - 32, p_resp[5] - 32, p_resp[6] - 32>>
           ELSE /\ report.kind = "1005?"
                /\ report.nums = <<>> /\ report.u = <<>>
                /\ Len(report.text) = Len(p_resp)
                /\ \A k \in 1..Len(p_resp) :
                      p_resp[k] \in 32..127 => report.text[k] = p_resp[k]

\* C14's case: ESC [ M ! " # has been decoded as button 1 at column 2, row 3.
C14_Witness ==
    /\ pc = "decoded" /\ p_resp = LegacyReport(33, 34, 35)
    /\ report.kind = "1000/1005" /\ report.nums = <<1, 2, 3>>

\* C15: the decoder's result is that of the first of the grammars legacy,
\* SGR-like, urxvt-like that the Response matches, and "Failed to parse." when
\* it matches none.
C15_FirstGrammarWins ==
    pc = "decoded"
        => report.kind \in
             (IF LegacyGrammar(p_resp) THEN {"1005?", "1000/1005"}
              ELSE IF SgrGrammar(p_resp, FALSE) THEN {"1016", "1006/1016"}
              ELSE IF UrxvtGrammar(p_resp, FALSE) THEN {"1015"}
              ELSE {"Failed to parse."})

\* C17: for a Response ESC [ b ; x ; y M the reported button is the integer
\* b - 32 and the reported column and row are x and y, for every b, those
\* below 32 included.
C17_UrxvtButtonIsBMinus32 ==
    \A b \in MouseNumbers, x \in MouseNumbers :
        (pc = "decoded" /\ p_resp = UrxvtReport(Dec(b), Dec(x), Dec(10), 77))
            => /\ report.kind = "1015"
               /\ report.u = <<<<0, b - 32>>, <<0, x>>, <<0, 10>>>>

====
